---- MODULE Spec2Model ----
(***************************************************************************)
(* A model of pkg/parser/parser.go of gocover: Parser.Parse, convertProfile *)
(* (block/statement reconciliation, ignore profiles), findFile, findFuncs   *)
(* with FuncVisitor and StmtVisitor, findState, findChange and InFolder.    *)
(*                                                                         *)
(* Strings that the code inspects (paths, file names) are sequences of     *)
(* one-character strings.  Source positions are <<line, column>> pairs;    *)
(* byte offsets are not modelled.  A Go pointer that may be nil is a       *)
(* sequence of length 0 (nil) or 1; an error value is the chain of its     *)
(* messages from the outermost wrapper to the innermost cause, and the nil *)
(* error is the empty chain.                                               *)
(***************************************************************************)
EXTENDS Integers, Sequences, FiniteSets, TLC

(***************************************************************************)
(* Bounds of the exploration.                                              *)
(***************************************************************************)
MaxBlocks == 2      \* profile blocks of one profile entry
MaxCount == 1       \* execution count of one block
MaxChanges == 2     \* changes given to one Parse call
MaxSections == 2    \* sections over all changes given to one Parse call
MaxSecLine == 3     \* last line a change section may name
MaxCalls == 2       \* Parse invocations on one Parser
MaxProfiles == 2    \* cover profile files handed to NewParser
MaxEntries == 1     \* profile entries decoded from one cover profile file

Pos(l, c) == <<l, c>>
Line(p) == p[1]
Col(p) == p[2]

(***************************************************************************)
(* Syntax trees.  A statement is a record with its kind, its Pos() and     *)
(* End() and the children go/ast gives that kind; an optional child is a   *)
(* sequence of length 0 or 1.  "Simple" stands for every statement kind    *)
(* StmtVisitor.VisitStmt has no case for; lits are the function literals   *)
(* of its expressions, in source order.                                    *)
(***************************************************************************)
Simple(p, e, lits) == [kind |-> "Simple", pos |-> p, end |-> e, lits |-> lits]
Block(p, e, list) == [kind |-> "Block", pos |-> p, end |-> e, List |-> list]
CaseClause(p, e, body) == [kind |-> "Case", pos |-> p, end |-> e, Body |-> body]
CommClause(p, e, body) == [kind |-> "Comm", pos |-> p, end |-> e, Body |-> body]
ForStmt(p, e, init, post, body) ==
    [kind |-> "For", pos |-> p, end |-> e, Init |-> init, Post |-> post, Body |-> body]
IfStmt(p, e, init, body, else) ==
    [kind |-> "If", pos |-> p, end |-> e, Init |-> init, Body |-> body, Else |-> else]
LabeledStmt(p, e, stmt) == [kind |-> "Labeled", pos |-> p, end |-> e, Stmt |-> stmt]
RangeStmt(p, e, body) == [kind |-> "Range", pos |-> p, end |-> e, Body |-> body]
SelectStmt(p, e, body) == [kind |-> "Select", pos |-> p, end |-> e, Body |-> body]
SwitchStmt(p, e, init, body) ==
    [kind |-> "Switch", pos |-> p, end |-> e, Init |-> init, Body |-> body]
TypeSwitchStmt(p, e, init, assign, body) ==
    [kind |-> "TypeSwitch", pos |-> p, end |-> e, Init |-> init,
     Assign |-> assign, Body |-> body]
FuncLit(p, e, body) == [kind |-> "FuncLit", pos |-> p, end |-> e, Body |-> <<body>>]
\* recv is the receiver's type expression (0 or 1), body the Body (0 or 1).
FuncDecl(p, e, name, recv, body) ==
    [kind |-> "FuncDecl", pos |-> p, end |-> e, Name |-> name, Recv |-> recv,
     Body |-> body]
Ident(name) == [kind |-> "Ident", Name |-> name]
StarExpr(x) == [kind |-> "Star", X |-> <<x>>]
IndexExpr(x, i) == [kind |-> "Index", X |-> <<x>>, Index |-> <<i>>]

(***************************************************************************)
(* The source files of the exploration (tabs count one column).            *)
(*                                                                         *)
(*  SrcPlain              SrcClosure                SrcIf                  *)
(*  1 func F() {          1 func H() {              1 func G() {           *)
(*  2     a()             2     f := func() { a() } 2     if x := f(); x { *)
(*  3     b()             3     b()                 3         a()          *)
(*  4     c()             4 }                       4     } else if y {    *)
(*  5 }                                             5         b()          *)
(*  6 func ext()                                    6     } else {         *)
(*                                                  7         c()          *)
(*                                                  8     }                *)
(*                                                  9 }                    *)
(*  SrcLoop                            SrcSelect                           *)
(*  1 func (t *T) M() {                1 func K() {                        *)
(*  2     for i := 0; i < n; i++ {     2 L:                                *)
(*  3         switch v := x.(type) {   3     for range xs {                *)
(*  4         case int:                4         select {                  *)
(*  5             a()                  5         case <-c:                 *)
(*  6         }                        6             switch t := f(); t {  *)
(*  7     }                            7             }                     *)
(*  8 }                                8         }                         *)
(*  9 func (s S[T]) N() {}             9     }                             *)
(*                                    10 }                                 *)
(***************************************************************************)
SrcPlain ==
    << FuncDecl(Pos(1,1), Pos(5,2), "F", <<>>,
         << Block(Pos(1,10), Pos(5,2),
              << Simple(Pos(2,2), Pos(2,5), <<>>),
                 Simple(Pos(3,2), Pos(3,5), <<>>),
                 Simple(Pos(4,2), Pos(4,5), <<>>) >>) >>),
       FuncDecl(Pos(6,1), Pos(6,11), "ext", <<>>, <<>>) >>

SrcClosure ==
    << FuncDecl(Pos(1,1), Pos(4,2), "H", <<>>,
         << Block(Pos(1,10), Pos(4,2),
              << Simple(Pos(2,2), Pos(2,21),
                   << FuncLit(Pos(2,7), Pos(2,21),
                        Block(Pos(2,14), Pos(2,21),
                          << Simple(Pos(2,16), Pos(2,19), <<>>) >>)) >>),
                 Simple(Pos(3,2), Pos(3,5), <<>>) >>) >>) >>

SrcIf ==
    << FuncDecl(Pos(1,1), Pos(9,2), "G", <<>>,
         << Block(Pos(1,10), Pos(9,2),
              << IfStmt(Pos(2,2), Pos(8,3),
                   << Simple(Pos(2,5), Pos(2,13), <<>>) >>,
                   Block(Pos(2,17), Pos(4,3),
                     << Simple(Pos(3,3), Pos(3,6), <<>>) >>),
                   << IfStmt(Pos(4,9), Pos(8,3), <<>>,
                        Block(Pos(4,14), Pos(6,3),
                          << Simple(Pos(5,3), Pos(5,6), <<>>) >>),
                        << Block(Pos(6,9), Pos(8,3),
                             << Simple(Pos(7,3), Pos(7,6), <<>>) >>) >>) >>) >>) >>) >>

SrcLoop ==
    << FuncDecl(Pos(1,1), Pos(8,2), "M", << StarExpr(Ident("T")) >>,
         << Block(Pos(1,17), Pos(8,2),
              << ForStmt(Pos(2,2), Pos(7,3),
                   << Simple(Pos(2,6), Pos(2,12), <<>>) >>,
                   << Simple(Pos(2,21), Pos(2,24), <<>>) >>,
                   Block(Pos(2,25), Pos(7,3),
                     << TypeSwitchStmt(Pos(3,3), Pos(6,4), <<>>,
                          Simple(Pos(3,10), Pos(3,23), <<>>),
                          Block(Pos(3,24), Pos(6,4),
                            << CaseClause(Pos(4,3), Pos(5,7),
                                 << Simple(Pos(5,4), Pos(5,7), <<>>) >>) >>)) >>)) >>) >>),
       FuncDecl(Pos(9,1), Pos(9,22), "N", << IndexExpr(Ident("S"), Ident("T")) >>,
         << Block(Pos(9,20), Pos(9,22), <<>>) >>) >>

SrcSelect ==
    << FuncDecl(Pos(1,1), Pos(10,2), "K", <<>>,
         << Block(Pos(1,10), Pos(10,2),
              << LabeledStmt(Pos(2,1), Pos(9,3),
                   RangeStmt(Pos(3,2), Pos(9,3),
                     Block(Pos(3,15), Pos(9,3),
                       << SelectStmt(Pos(4,3), Pos(8,4),
                            Block(Pos(4,10), Pos(8,4),
                              << CommClause(Pos(5,3), Pos(7,5),
                                   << SwitchStmt(Pos(6,4), Pos(7,5),
                                        << Simple(Pos(6,11), Pos(6,19), <<>>) >>,
                                        Block(Pos(6,23), Pos(7,5), <<>>)) >>) >>)) >>))) >>) >>) >>

(***************************************************************************)
(* findFuncs: FuncVisitor and StmtVisitor.                                 *)
(***************************************************************************)
backupToElse == 5

Extent(node) ==
    [startLine |-> Line(node.pos), startCol |-> Col(node.pos),
     endLine |-> Line(node.end), endCol |-> Col(node.end)]

RECURSIVE exprName(_)
exprName(x) ==
    CASE x.kind = "Star" -> exprName(x.X[1])
      [] x.kind = "Index" ->
            exprName(x.X[1]) \o <<"[">> \o exprName(x.Index[1]) \o <<"]">>
      [] x.kind = "Ident" -> <<x.Name>>
      [] OTHER -> <<>>

functionName(f) ==
    IF f.Recv = <<>> THEN <<f.Name>>
    ELSE exprName(f.Recv[1]) \o <<".">> \o <<f.Name>>

\* The else branch as VisitStmt rewrites it before visiting it (lines 312-328).
ElseBlock(stmt) ==
    IF stmt.kind = "If"
    THEN Block(Pos(Line(stmt.pos), Col(stmt.pos) - backupToElse), stmt.end, <<stmt>>)
    ELSE [stmt EXCEPT !.pos = Pos(Line(stmt.pos), Col(stmt.pos) - backupToElse)]

\* The loop of lines 351-369 skipping the control constructs as well.
RecordsExtentMinimal(s) ==
    s.kind \notin {"Case", "Comm", "Block", "For", "Range", "If", "Switch",
                   "TypeSwitch", "Select"}

\* Whether the loop of lines 351-369 appends an extent for list element s.
RecordsExtent(s) == s.kind \notin {"Case", "Comm", "Block"}

RECURSIVE VisitStmt(_), VisitList(_, _), VisitOpt(_)
\* The extents one call of VisitStmt appends to v.function.stmts, in order.
VisitStmt(s) ==
    CASE s.kind = "Block" -> VisitList(s.List, 1)
      [] s.kind = "Case" -> VisitList(s.Body, 1)
      [] s.kind = "Comm" -> VisitList(s.Body, 1)
      [] s.kind = "For" -> VisitOpt(s.Init) \o VisitOpt(s.Post) \o VisitStmt(s.Body)
      [] s.kind = "If" ->
            VisitOpt(s.Init) \o VisitStmt(s.Body)
            \o (IF s.Else = <<>> THEN <<>> ELSE VisitStmt(ElseBlock(s.Else[1])))
      [] s.kind = "Labeled" -> VisitStmt(s.Stmt)
      [] s.kind = "Range" -> VisitStmt(s.Body)
      [] s.kind = "Select" -> VisitStmt(s.Body)
      [] s.kind = "Switch" -> VisitOpt(s.Init) \o VisitStmt(s.Body)
      [] s.kind = "TypeSwitch" ->
            VisitOpt(s.Init) \o VisitStmt(s.Assign) \o VisitStmt(s.Body)
      [] OTHER -> <<>>
VisitOpt(o) == IF o = <<>> THEN <<>> ELSE VisitStmt(o[1])
VisitList(statements, i) ==
    IF i > Len(statements) THEN <<>>
    ELSE (IF RecordsExtent(statements[i]) THEN <<Extent(statements[i])>> ELSE <<>>)
         \o VisitStmt(statements[i])
         \o VisitList(statements, i + 1)

\* FuncVisitor.Visit on one node: the FuncExtent it appends, if any.
Visit(node) ==
    IF node.kind \in {"FuncLit", "FuncDecl"} /\ node.Body # <<>>
    THEN LET declared == IF node.kind = "FuncDecl" THEN functionName(node) ELSE <<>>
             name == IF declared = <<>>
                     THEN <<"@", ToString(Line(node.pos)), ":", ToString(Col(node.pos))>>
                     ELSE declared
         IN << [name |-> name, extent |-> Extent(node),
                stmts |-> VisitStmt(node.Body[1])] >>
    ELSE <<>>

RECURSIVE Walk(_), WalkList(_, _), WalkOpt(_)
\* ast.Walk with a FuncVisitor: Visit on the node, then on its children in
\* the order ast.Walk descends into them.
Walk(node) ==
    Visit(node) \o
    CASE node.kind \in {"FuncLit", "FuncDecl"} -> WalkOpt(node.Body)
      [] node.kind = "Simple" -> WalkList(node.lits, 1)
      [] node.kind = "Block" -> WalkList(node.List, 1)
      [] node.kind \in {"Case", "Comm"} -> WalkList(node.Body, 1)
      [] node.kind = "For" -> WalkOpt(node.Init) \o WalkOpt(node.Post) \o Walk(node.Body)
      [] node.kind = "If" -> WalkOpt(node.Init) \o Walk(node.Body) \o WalkOpt(node.Else)
      [] node.kind = "Labeled" -> Walk(node.Stmt)
      [] node.kind \in {"Range", "Select"} -> Walk(node.Body)
      [] node.kind = "Switch" -> WalkOpt(node.Init) \o Walk(node.Body)
      [] node.kind = "TypeSwitch" ->
            WalkOpt(node.Init) \o Walk(node.Assign) \o Walk(node.Body)
      [] OTHER -> <<>>
WalkOpt(o) == IF o = <<>> THEN <<>> ELSE Walk(o[1])
WalkList(nodes, i) ==
    IF i > Len(nodes) THEN <<>> ELSE Walk(nodes[i]) \o WalkList(nodes, i + 1)

\* The statement extents of a file in the order convertProfile lists them
\* (lines 107-133): function after function, each function's own statements.
RECURSIVE FlattenStmts(_, _)
FlattenStmts(extents, i) ==
    IF i > Len(extents) THEN <<>>
    ELSE extents[i].stmts \o FlattenStmts(extents, i + 1)

(***************************************************************************)
(* The Diff Correlator: findState, findChange, InFolder.                   *)
(***************************************************************************)
HasSuffix(s, suffix) ==
    /\ Len(suffix) <= Len(s)
    /\ SubSeq(s, Len(s) - Len(suffix) + 1, Len(s)) = suffix

InFolder(parentDir, filepath) == HasSuffix(parentDir, filepath)

\* findState testing only the first line of each section.
findStateFirstLine(stmt, change) ==
    IF change = <<>> THEN "Original"
    ELSE IF \E k \in 1..Len(change[1].Sections) :
               /\ stmt.startLine <= change[1].Sections[k].StartLine
               /\ stmt.endLine >= change[1].Sections[k].StartLine
         THEN "Changed"
         ELSE "Original"

\* change is the *gittool.Change: <<>> is nil.
findState(stmt, change) ==
    IF change = <<>> THEN "Original"
    ELSE IF \E k \in 1..Len(change[1].Sections) :
               \E i \in change[1].Sections[k].StartLine..change[1].Sections[k].EndLine :
                   stmt.startLine <= i /\ stmt.endLine >= i
         THEN "Changed"
         ELSE "Original"

RECURSIVE findChangeFrom(_, _, _)
findChangeFrom(profile, changes, k) ==
    IF k > Len(changes) THEN <<>>
    ELSE IF InFolder(profile.FileName, changes[k].FileName) THEN <<changes[k]>>
    ELSE findChangeFrom(profile, changes, k + 1)

findChange(profile, changes) == findChangeFrom(profile, changes, 1)

(***************************************************************************)
(* The file system and the Go build context the parser reads: what         *)
(* build.Import and go/parser give for the directories and files of the    *)
(* exploration.                                                            *)
(***************************************************************************)
Slash == "/"
Path(dir, file) == dir \o <<Slash>> \o file

\* build.Import(dir, ".", build.FindOnly): <<pkg>>, or <<>> when it fails.
Import(dir) ==
    CASE dir = <<"p">> -> << [Dir |-> <<"r", Slash, "p">>, ImportPath |-> <<"m", Slash, "p">>] >>
      [] dir = <<"q">> -> << [Dir |-> <<"r", Slash, "q">>, ImportPath |-> <<"m", Slash, "q">>] >>
      [] OTHER -> <<>>

\* parser.ParseFile: <<declarations>>, or <<>> when the file does not parse.
ParseFile(name) ==
    CASE name = <<"r", Slash, "p", Slash, "a">> -> <<SrcPlain>>
      [] name = <<"r", Slash, "p", Slash, "b">> -> <<SrcClosure>>
      [] name = <<"r", Slash, "q", Slash, "a">> -> <<SrcIf>>
      [] name = <<"r", Slash, "q", Slash, "m">> -> <<SrcLoop>>
      [] name = <<"r", Slash, "q", Slash, "k">> -> <<SrcSelect>>
      [] OTHER -> <<>>

\* The FileName of a profile entry.
FileNames ==
    { <<"p", Slash, "a">>, <<"p", Slash, "b">>, <<"q", Slash, "a">>,
      <<"q", Slash, "m">>, <<"q", Slash, "k">>,
      <<"p", Slash, "e">>,      \* resolves, does not parse
      <<"z", Slash, "a">>,      \* its directory does not resolve
      <<"a">> }                 \* no directory part

Wrap(tag, err) == <<tag>> \o err

EmptyMap == [n \in {} |-> 0]

RECURSIVE LastSlash(_, _)
LastSlash(s, i) == IF i = 0 \/ s[i] = Slash THEN i ELSE LastSlash(s, i - 1)
\* filepath.Split: the directory with its trailing separator, and the file.
Split(path) ==
    LET i == LastSlash(path, Len(path))
    IN [dir |-> SubSeq(path, 1, i), file |-> SubSeq(path, i + 1, Len(path))]
TrimSuffix(s, suffix) ==
    IF HasSuffix(s, suffix) THEN SubSeq(s, 1, Len(s) - Len(suffix)) ELSE s

\* findFile: the cache after the call, and (filename, pkgpath) or the error.
findFile(cache, fileName) ==
    LET sp == Split(fileName)
        dir == IF sp.dir # <<>> THEN TrimSuffix(sp.dir, <<Slash>>) ELSE sp.dir
        hit == dir \in DOMAIN cache
        imported == Import(dir)
    IN IF ~hit /\ imported = <<>>
       THEN [cache |-> cache, filename |-> <<>>, pkgpath |-> <<>>,
             err |-> Wrap("can't find", <<"ResolutionError">>)]
       ELSE LET pkg == IF hit THEN cache[dir] ELSE imported[1]
            IN [cache |-> IF hit THEN cache
                          ELSE [d \in DOMAIN cache \cup {dir} |->
                                  IF d = dir THEN pkg ELSE cache[d]],
                filename |-> Path(pkg.Dir, sp.file),
                pkgpath |-> pkg.ImportPath,
                err |-> <<>>]

\* findFuncs: the FuncExtents of the file, or the parser's error.
findFuncs(name) ==
    LET parsedFile == ParseFile(name)
    IN IF parsedFile = <<>>
       THEN [extents |-> <<>>, err |-> <<"ParseError">>]
       ELSE [extents |-> WalkList(parsedFile[1], 1), err |-> <<>>]

(***************************************************************************)
(* The Block-Statement Reconciler of convertProfile (lines 136-167).       *)
(* A profile block is a cover.ProfileBlock without NumStmt, which the code *)
(* never reads; a statement is the code's statement wrapper: the Statement *)
(* fields and the StmtExtent fields.                                       *)
(***************************************************************************)
FILE_IGNORE == "FILE_IGNORE"

PastEnd(b, s) ==
    b.StartLine > s.endLine \/ (b.StartLine = s.endLine /\ b.StartCol >= s.endCol)

BeforeStart(b, s) ==
    b.EndLine < s.startLine \/ (b.EndLine = s.startLine /\ b.EndCol <= s.startCol)

NewStatement(se, change) ==
    [StartLine |-> se.startLine, EndLine |-> se.endLine, Mode |-> "Keep",
     State |-> findState(se, change), Reached |-> 0,
     startLine |-> se.startLine, startCol |-> se.startCol,
     endLine |-> se.endLine, endCol |-> se.endCol]

RECURSIVE NewStatements(_, _, _)
NewStatements(ses, change, i) ==
    IF i > Len(ses) THEN <<>>
    ELSE <<NewStatement(ses[i], change)>> \o NewStatements(ses, change, i + 1)

\* The file-level ignore test with the type compared to the wrong constant.
FileIgnoredNever(ignoreProfile) ==
    ignoreProfile # <<>> /\ ignoreProfile[1].Type = "BLOCK_IGNORE"

\* Lines 140-145: the file-level ignore test.
FileIgnored(ignoreProfile) ==
    ignoreProfile # <<>> /\ ignoreProfile[1].Type = FILE_IGNORE

\* The inner loop without the break of line 165: every overlapping block up
\* to the first one past the end of the statement is counted.
RECURSIVE ScanBlocksAll(_, _, _, _)
ScanBlocksAll(s, blocks, i, ignoreProfile) ==
    IF i > Len(blocks) THEN [s |-> s, blocks |-> blocks]
    ELSE LET b == blocks[i]
         IN IF PastEnd(b, s)
            THEN [s |-> s, blocks |-> SubSeq(blocks, i, Len(blocks))]
            ELSE IF BeforeStart(b, s)
            THEN ScanBlocksAll(s, blocks, i + 1, ignoreProfile)
            ELSE ScanBlocksAll(
                    [s EXCEPT !.Reached = @ + b.Count,
                              !.Mode = IF b \in ignoreProfile[1].IgnoreBlocks
                                       THEN "Ignore" ELSE @],
                    blocks, i + 1, ignoreProfile)

\* The inner loop with the ignore test of line 160 looking at every block the
\* statement overlaps instead of the one it counts.
RECURSIVE ScanBlocksSticky(_, _, _, _)
ScanBlocksSticky(s, blocks, i, ignoreProfile) ==
    IF i > Len(blocks) THEN [s |-> s, blocks |-> blocks]
    ELSE LET b == blocks[i]
         IN IF PastEnd(b, s)
            THEN [s |-> s, blocks |-> SubSeq(blocks, i, Len(blocks))]
            ELSE IF BeforeStart(b, s)
            THEN ScanBlocksSticky(s, blocks, i + 1, ignoreProfile)
            ELSE [s |-> [s EXCEPT !.Reached = @ + b.Count,
                                  !.Mode = IF \E k \in i..Len(blocks) :
                                                 /\ ~PastEnd(blocks[k], s)
                                                 /\ ~BeforeStart(blocks[k], s)
                                                 /\ blocks[k] \in ignoreProfile[1].IgnoreBlocks
                                           THEN "Ignore" ELSE @],
                  blocks |-> blocks]

\* Lines 147-166, the inner loop from index i on: the statement and the
\* block slice when the loop is left.
RECURSIVE ScanBlocks(_, _, _, _)
ScanBlocks(s, blocks, i, ignoreProfile) ==
    IF i > Len(blocks) THEN [s |-> s, blocks |-> blocks]
    ELSE LET b == blocks[i]
         IN IF PastEnd(b, s)
            THEN [s |-> s, blocks |-> SubSeq(blocks, i, Len(blocks))]
            ELSE IF BeforeStart(b, s)
            THEN ScanBlocks(s, blocks, i + 1, ignoreProfile)
            ELSE [s |-> [s EXCEPT !.Reached = @ + b.Count,
                                  !.Mode = IF b \in ignoreProfile[1].IgnoreBlocks
                                           THEN "Ignore" ELSE @],
                  blocks |-> blocks]

\* One iteration of the loop of line 137.
ReconcileStmt(s, blocks, ignoreProfile) ==
    IF FileIgnored(ignoreProfile)
    THEN [s |-> [s EXCEPT !.Mode = "Ignore", !.Reached = 1], blocks |-> blocks]
    ELSE ScanBlocks(s, blocks, 1, ignoreProfile)

\* The loop of line 137 from statement i on: the statements as it leaves them
\* and, for each, the number of blocks of p.Blocks the slice has dropped.
RECURSIVE Reconcile(_, _, _, _, _)
Reconcile(stmts, i, blocks, ignoreProfile, total) ==
    IF i > Len(stmts) THEN [stmts |-> <<>>, cursor |-> <<>>]
    ELSE LET r == ReconcileStmt(stmts[i], blocks, ignoreProfile)
             rest == Reconcile(stmts, i + 1, r.blocks, ignoreProfile, total)
         IN [stmts |-> <<r.s>> \o rest.stmts,
             cursor |-> <<total - Len(r.blocks)>> \o rest.cursor]

\* Lines 108-133: the Functions appended to the package.  A Function keeps
\* the number of its Statements; the Statements themselves are the ones of
\* the statement list being reconciled.
RECURSIVE NewFunctions(_, _, _)
NewFunctions(extents, file, i) ==
    IF i > Len(extents) THEN <<>>
    ELSE << [Name |-> extents[i].name, File |-> file,
             StartLine |-> extents[i].extent.startLine,
             EndLine |-> extents[i].extent.endLine,
             Statements |-> Len(extents[i].stmts)] >>
         \o NewFunctions(extents, file, i + 1)

\* findFuncs on every file a profile entry of the exploration resolves to,
\* parsed once.
ResolvedFiles ==
    { findFile(EmptyMap, n).filename :
        n \in { m \in FileNames : findFile(EmptyMap, m).err = <<>> } }
ParsedFuncs == [name \in ResolvedFiles |-> findFuncs(name)]

NoConv ==
    [FileName |-> <<>>, file |-> <<>>, Blocks |-> <<>>, ignoreProfile |-> <<>>,
     change |-> <<>>, extents |-> <<>>, stmts |-> <<>>, cursor |-> <<>>,
     returned |-> FALSE]

\* convertProfile.  p is the profile entry, change the result of findChange,
\* annotated what annotation.ParseIgnoreProfiles returns for (file, p).
convertProfile(pkgs, cache, p, change, annotated) ==
    LET found == findFile(cache, p.FileName)
        file == found.filename
        pkgpath == found.pkgpath
        pkgs1 == IF pkgpath \in DOMAIN pkgs THEN pkgs
                 ELSE [n \in DOMAIN pkgs \cup {pkgpath} |->
                         IF n = pkgpath THEN [Name |-> pkgpath, Functions |-> <<>>]
                         ELSE pkgs[n]]
        funcs == ParsedFuncs[file]
        stmts == NewStatements(FlattenStmts(funcs.extents, 1), change, 1)
        pkgs2 == [pkgs1 EXCEPT ![pkgpath].Functions =
                     @ \o NewFunctions(funcs.extents, file, 1)]
        rec == Reconcile(stmts, 1, p.Blocks, annotated.profile, Len(p.Blocks))
        base == [NoConv EXCEPT !.FileName = p.FileName, !.Blocks = p.Blocks,
                               !.change = change]
    IN IF found.err # <<>>
       THEN [err |-> Wrap("find file", found.err), fault |-> "ResolutionError",
             cache |-> found.cache, packages |-> pkgs, pkgpath |-> <<>>,
             built |-> 0, conv |-> base]
       ELSE IF annotated.err # <<>>
       THEN [err |-> <<"parse ignore profile">>, fault |-> "AnnotationError",
             cache |-> found.cache, packages |-> pkgs1, pkgpath |-> pkgpath,
             built |-> 0, conv |-> [base EXCEPT !.file = file]]
       ELSE IF funcs.err # <<>>
       THEN [err |-> Wrap("find Functions", funcs.err), fault |-> "ParseError",
             cache |-> found.cache, packages |-> pkgs1, pkgpath |-> pkgpath,
             built |-> 0,
             conv |-> [base EXCEPT !.file = file,
                                   !.ignoreProfile = annotated.profile]]
       ELSE [err |-> <<>>, fault |-> "none",
             cache |-> found.cache, packages |-> pkgs2, pkgpath |-> pkgpath,
             built |-> Len(funcs.extents),
             conv |-> [base EXCEPT !.file = file,
                                   !.ignoreProfile = annotated.profile,
                                   !.extents = funcs.extents,
                                   !.stmts = rec.stmts,
                                   !.cursor = rec.cursor,
                                   !.returned = TRUE]]

(***************************************************************************)
(* Parser.Parse as a state machine.                                        *)
(*   pc        "idle" before the first call, "file" at the head of the     *)
(*             loop of line 45, "entry" at the head of the loop of line    *)
(*             53, "done" when the call has returned                       *)
(*   fi, ei    the position of the two loops; profiles is what             *)
(*             cover.ParseProfiles decoded from the current file           *)
(*   result    the Packages value being built: the names of the packages   *)
(*             it holds (each a pointer into parser.packages)              *)
(*   ret       what the last call returned: the Packages pointer, the error*)
(*   conv      the locals of the last convertProfile call of the entry     *)
(*             loop; returned says that it returned nil                    *)
(*   calls, fault, built, addLog, decoded, converted record the run: the   *)
(*             number of Parse calls begun, the error a collaborator       *)
(*             raised in the current call, the Functions the current call  *)
(*             constructed per package, the AddPackage calls of the last   *)
(*             completed file iteration, and the entries the current call  *)
(*             decoded and converted.                                      *)
(*   lim       the slice of the input space the behaviour explores         *)
(***************************************************************************)
VARIABLES coverProfileFiles, packages, packagesCache, changes, pc, fi, ei,
          profiles, result, ret, conv, calls, fault, built, addLog, decoded,
          converted, lim

vars == <<coverProfileFiles, packages, packagesCache, changes, pc, fi, ei,
          profiles, result, ret, conv, calls, fault, built, addLog, decoded,
          converted, lim>>

(***************************************************************************)
(* Inputs.                                                                 *)
(***************************************************************************)
\* Positions a profile block may start or end at.
BlockPoints == { Pos(2,2), Pos(2,5), Pos(3,2), Pos(3,5), Pos(4,2) }

PosLess(a, b) == Line(a) < Line(b) \/ (Line(a) = Line(b) /\ Col(a) < Col(b))

ProfileBlocks ==
    { [StartLine |-> Line(a), StartCol |-> Col(a), EndLine |-> Line(b),
       EndCol |-> Col(b), Count |-> c] :
         <<a, b, c>> \in { x \in BlockPoints \X BlockPoints \X (0..MaxCount) :
                             PosLess(x[1], x[2]) } }

SameSpan(b, c) ==
    /\ b.StartLine = c.StartLine /\ b.StartCol = c.StartCol
    /\ b.EndLine = c.EndLine /\ b.EndCol = c.EndCol

\* cover.ParseProfiles sorts the blocks of an entry by start position and
\* merges the blocks of one span.
BlockLists(k) ==
    { bs \in UNION { [1..n -> ProfileBlocks] : n \in 0..k } :
        \A i, j \in 1..Len(bs) :
            i < j => /\ ~PosLess(Pos(bs[j].StartLine, bs[j].StartCol),
                                 Pos(bs[i].StartLine, bs[i].StartCol))
                     /\ ~SameSpan(bs[i], bs[j]) }

\* The entries cover.ParseProfiles may decode: a cover.Profile without Mode.
Profiles(names, k) ==
    { [FileName |-> f, Blocks |-> bs] : <<f, bs>> \in names \X BlockLists(k) }

BlockSet(blocks) == { blocks[i] : i \in 1..Len(blocks) }

\* What annotation.ParseIgnoreProfiles may return for an entry.
Annotations(blocks, kinds) ==
    { [err |-> <<>>, profile |-> << [Type |-> "NONE", IgnoreBlocks |-> s] >>] :
        s \in SUBSET BlockSet(blocks) }
    \cup (IF "file" \in kinds
          THEN { [err |-> <<>>,
                  profile |-> << [Type |-> FILE_IGNORE, IgnoreBlocks |-> {}] >>] }
          ELSE {})
    \cup (IF "error" \in kinds
          THEN { [err |-> <<"AnnotationError">>, profile |-> <<>>] }
          ELSE {})

\* The sections of a change; the statements of the files start at line 2.
Sections ==
    { [StartLine |-> s, EndLine |-> e] :
        <<s, e>> \in { x \in (2..MaxSecLine) \X (2..MaxSecLine) : x[1] <= x[2] } }

ChangeNames == { <<"a">>, <<"m">> }

SectionLists(n) == [1..n -> Sections]

\* The change lists of exactly n changes with at most k sections in all.
RECURSIVE ChangeListsOf(_, _)
ChangeListsOf(n, k) ==
    IF n = 0 THEN { <<>> }
    ELSE UNION { { << [FileName |-> f, Sections |-> ss] >> \o rest :
                     <<f, ss, rest>> \in
                        ChangeNames \X SectionLists(j) \X ChangeListsOf(n - 1, k - j) } :
                 j \in 0..k }

ChangeLists(k) == IF k = 0 THEN { <<>> } ELSE UNION { ChangeListsOf(n, k) : n \in 0..MaxChanges }

ReconcileNames ==
    { <<"p", Slash, "a">>, <<"p", Slash, "b">>, <<"q", Slash, "a">>, <<"a">> }
ChangedNames == { <<"p", Slash, "a">>, <<"q", Slash, "m">> }
RunNames ==
    { <<"p", Slash, "a">>, <<"q", Slash, "k">>, <<"p", Slash, "e">>,
      <<"z", Slash, "a">> }

\* Three slices: one entry with every block list, one entry with every change
\* list, and runs of several calls, files and entries.
Budgets ==
    { [calls |-> 1, files |-> 1, entries |-> 1, blocks |-> MaxBlocks,
       sections |-> 0, annot |-> {"file", "error"}, names |-> ReconcileNames],
      [calls |-> 1, files |-> 1, entries |-> 1, blocks |-> 0,
       sections |-> MaxSections, annot |-> {}, names |-> ChangedNames] }
    \cup { [calls |-> MaxCalls, files |-> n, entries |-> MaxEntries, blocks |-> 0,
            sections |-> 0, annot |-> {"error"}, names |-> RunNames] :
             n \in 0..MaxProfiles }

(***************************************************************************)
(* NewParser (lines 20-30).                                                *)
(***************************************************************************)
Init ==
    /\ lim \in Budgets
    /\ coverProfileFiles = [i \in 1..lim.files |-> i]
    /\ packages = EmptyMap
    /\ packagesCache = EmptyMap
    /\ changes = <<>>
    /\ pc = "idle"
    /\ fi = 0
    /\ ei = 0
    /\ profiles = <<>>
    /\ result = {}
    /\ ret = [packages |-> <<>>, err |-> <<>>]
    /\ conv = NoConv
    /\ calls = 0
    /\ fault = "none"
    /\ built = EmptyMap
    /\ addLog = EmptyMap
    /\ decoded = 0
    /\ converted = 0

\* The return of a failed call handing out an empty Packages with the error.
ParseFailPartial(tag, err) == [packages |-> <<{}>>, err |-> Wrap(tag, err)]

\* Lines 48-51 and 54-57: the return of a failed call.
ParseFail(tag, err) == [packages |-> <<>>, err |-> Wrap(tag, err)]

\* Line 66.
ParseOk(res) == [packages |-> <<res>>, err |-> <<>>]

\* Packages.AddPackage: the aggregate holds one entry per package name.
AddPackage(res, pkg) == res \cup {pkg}

\* The loop of line 61 ranging over all but one of the packages.
RangedPackagesButOne(pkgs) ==
    IF DOMAIN pkgs = {} THEN {}
    ELSE DOMAIN pkgs \ { CHOOSE n \in DOMAIN pkgs : TRUE }

\* Line 61: the packages the loop ranges over.
RangedPackages(pkgs) == DOMAIN pkgs

\* Line 42-43: a call of Parse begins.
StartParse ==
    /\ pc \in {"idle", "done"}
    /\ calls < lim.calls
    /\ \E cs \in ChangeLists(lim.sections) : changes' = cs
    /\ pc' = "file"
    /\ fi' = 1
    /\ ei' = 0
    /\ profiles' = <<>>
    /\ result' = {}
    /\ ret' = [packages |-> <<>>, err |-> <<>>]
    /\ conv' = NoConv
    /\ calls' = calls + 1
    /\ fault' = "none"
    /\ built' = EmptyMap
    /\ addLog' = EmptyMap
    /\ decoded' = 0
    /\ converted' = 0
    /\ UNCHANGED <<coverProfileFiles, packages, packagesCache, lim>>

\* Line 47: cover.ParseProfiles decodes the current profile file.
ParseProfilesOk ==
    /\ pc = "file"
    /\ fi <= Len(coverProfileFiles)
    /\ \E n \in 0..lim.entries :
         \E ps \in [1..n -> Profiles(lim.names, lim.blocks)] :
            /\ profiles' = ps
            /\ decoded' = decoded + n
    /\ ei' = 1
    /\ pc' = "entry"
    /\ UNCHANGED <<coverProfileFiles, packages, packagesCache, changes, fi, result,
                   ret, conv, calls, fault, built, addLog, converted, lim>>

\* Lines 47-52: cover.ParseProfiles fails.
ParseProfilesFail ==
    /\ pc = "file"
    /\ fi <= Len(coverProfileFiles)
    /\ fault' = "ProfileFormatError"
    /\ ret' = ParseFail("parse cover profile", <<"ProfileFormatError">>)
    /\ pc' = "done"
    /\ UNCHANGED <<coverProfileFiles, packages, packagesCache, changes, fi, ei,
                   profiles, result, conv, calls, built, addLog, decoded,
                   converted, lim>>

\* Lines 53-59: one entry of the current profile file is converted.
ConvertProfile ==
    /\ pc = "entry"
    /\ ei <= Len(profiles)
    /\ \E annotated \in Annotations(profiles[ei].Blocks, lim.annot) :
            LET p == profiles[ei]
                r == convertProfile(packages, packagesCache, p,
                                    findChange(p, changes), annotated)
            IN /\ packages' = r.packages
               /\ packagesCache' = r.cache
               /\ conv' = r.conv
               /\ fault' = r.fault
               /\ IF r.err # <<>>
                  THEN /\ ret' = ParseFail("covert cover profile", r.err)
                       /\ pc' = "done"
                       /\ UNCHANGED <<ei, built, converted>>
                  ELSE /\ ei' = ei + 1
                       /\ converted' = converted + 1
                       /\ built' = [n \in DOMAIN built \cup {r.pkgpath} |->
                                      (IF n \in DOMAIN built THEN built[n] ELSE 0)
                                      + (IF n = r.pkgpath THEN r.built ELSE 0)]
                       /\ UNCHANGED <<ret, pc>>
    /\ UNCHANGED <<coverProfileFiles, changes, fi, profiles, result, calls,
                   addLog, decoded, lim>>

\* Lines 61-63: the end of a profile-file iteration.
AddPackages ==
    /\ pc = "entry"
    /\ ei > Len(profiles)
    /\ result' = UNION ({result} \cup { AddPackage(result, n) : n \in RangedPackages(packages) })
    /\ addLog' = [n \in RangedPackages(packages) |-> 1]
    /\ conv' = NoConv
    /\ fi' = fi + 1
    /\ pc' = "file"
    /\ UNCHANGED <<coverProfileFiles, packages, packagesCache, changes, ei,
                   profiles, ret, calls, fault, built, decoded, converted, lim>>

\* Line 66: every profile file is processed.
Return ==
    /\ pc = "file"
    /\ fi > Len(coverProfileFiles)
    /\ ret' = ParseOk(result)
    /\ pc' = "done"
    /\ UNCHANGED <<coverProfileFiles, packages, packagesCache, changes, fi, ei,
                   profiles, result, conv, calls, fault, built, addLog, decoded,
                   converted, lim>>

Next ==
    \/ StartParse
    \/ ParseProfilesOk
    \/ ParseProfilesFail
    \/ ConvertProfile
    \/ AddPackages
    \/ Return

Spec == Init /\ [][Next]_vars

(***************************************************************************)
(* Properties of the reconciliation.                                       *)
(***************************************************************************)
\* convertProfile has returned nil for the entry in conv.
Converted == conv.returned

\* The file of the entry carries a file-level ignore marker.
FileMarked ==
    conv.ignoreProfile # <<>> /\ conv.ignoreProfile[1].Type = "FILE_IGNORE"

StmtIndices == 1..Len(conv.stmts)
BlockIndices == 1..Len(conv.Blocks)

StartOf(x) == Pos(x.startLine, x.startCol)
EndOf(x) == Pos(x.endLine, x.endCol)

\* The spans of block b and statement s share a position.
Overlaps(b, s) ==
    /\ PosLess(Pos(b.StartLine, b.StartCol), EndOf(s))
    /\ PosLess(StartOf(s), Pos(b.EndLine, b.EndCol))

OverlapIndices(s) == { k \in BlockIndices : Overlaps(conv.Blocks[k], s) }

RECURSIVE SumCounts(_)
SumCounts(ks) ==
    IF ks = {} THEN 0
    ELSE LET k == CHOOSE x \in ks : TRUE
         IN conv.Blocks[k].Count + SumCounts(ks \ {k})

\* The number of blocks the cursor has dropped when statement i is processed.
CursorBefore(i) == IF i = 1 THEN 0 ELSE conv.cursor[i - 1]

\* The blocks statement i overlaps among those the cursor has not dropped.
LiveOverlaps(i) == { k \in OverlapIndices(conv.stmts[i]) : k > CursorBefore(i) }

Min(ks) == CHOOSE k \in ks : \A j \in ks : k <= j

StatementsSorted ==
    \A i, j \in StmtIndices :
        i < j => ~PosLess(StartOf(conv.stmts[j]), StartOf(conv.stmts[i]))

\* C1 as stated: without a file-level ignore marker every statement's Reached
\* is the sum of Count over exactly the blocks overlapping the statement.
ReconciliationTotality ==
    (Converted /\ ~FileMarked) =>
        \A i \in StmtIndices :
            conv.stmts[i].Reached = SumCounts(OverlapIndices(conv.stmts[i]))

\* C1 amended: without a file-level ignore marker every statement's Reached is
\* the Count of one block, the first block overlapping the statement among the
\* blocks the cursor has not discarded, and 0 when there is none; when the
\* statements are in non-decreasing start order that block is the first block
\* of the file overlapping the statement.
FirstOverlapReached ==
    (Converted /\ ~FileMarked) =>
        \A i \in StmtIndices :
            /\ conv.stmts[i].Reached =
                  IF LiveOverlaps(i) = {} THEN 0
                  ELSE conv.Blocks[Min(LiveOverlaps(i))].Count
            /\ StatementsSorted =>
                  LiveOverlaps(i) = OverlapIndices(conv.stmts[i])

\* A statement overlapping two blocks with positive counts got the first count.
FirstOverlapReachedWitness ==
    /\ Converted /\ ~FileMarked
    /\ \E i \in StmtIndices :
          /\ Cardinality(OverlapIndices(conv.stmts[i])) >= 2
          /\ \A k \in OverlapIndices(conv.stmts[i]) : conv.Blocks[k].Count > 0
          /\ conv.stmts[i].Reached < SumCounts(OverlapIndices(conv.stmts[i]))

\* C2: under a file-level ignore marker every statement has Mode = Ignore and
\* Reached = 1 whatever the blocks are, and the block cursor consumes nothing.
FileIgnoreDominance ==
    (Converted /\ FileMarked) =>
        \A i \in StmtIndices :
            /\ conv.stmts[i].Mode = "Ignore"
            /\ conv.stmts[i].Reached = 1
            /\ conv.cursor[i] = 0

\* A file-ignored statement overlapping a block of count 0 before a later block.
FileIgnoreDominanceWitness ==
    /\ Converted /\ FileMarked
    /\ Len(conv.Blocks) >= 2
    /\ \E i \in StmtIndices :
          /\ \E k \in OverlapIndices(conv.stmts[i]) : conv.Blocks[k].Count = 0
          /\ \E k \in BlockIndices : PastEnd(conv.Blocks[k], conv.stmts[i])
          /\ conv.stmts[i].Reached = 1

IgnoredBlocks == conv.ignoreProfile[1].IgnoreBlocks

\* C8 as stated: without a file-level ignore marker a statement ends with
\* Mode = Ignore iff some block overlapping it is in the ignore-block set.
BlockIgnoreSticky ==
    (Converted /\ ~FileMarked) =>
        \A i \in StmtIndices :
            conv.stmts[i].Mode = "Ignore" <=>
                \E k \in OverlapIndices(conv.stmts[i]) : conv.Blocks[k] \in IgnoredBlocks

\* C8 amended: without a file-level ignore marker a statement ends with
\* Mode = Ignore iff the one block counted for it, the first overlapping block
\* the cursor has not discarded, is in the ignore-block set.
BlockIgnoreFirstOverlap ==
    (Converted /\ ~FileMarked) =>
        \A i \in StmtIndices :
            conv.stmts[i].Mode = "Ignore" <=>
                /\ LiveOverlaps(i) # {}
                /\ conv.Blocks[Min(LiveOverlaps(i))] \in IgnoredBlocks

\* One statement is ignored through its first overlapping block and another
\* is kept although a later overlapping block is in the ignore-block set.
BlockIgnoreFirstOverlapWitness ==
    /\ Converted /\ ~FileMarked
    /\ \E i \in StmtIndices : conv.stmts[i].Mode = "Ignore"
    /\ \E i \in StmtIndices :
          /\ conv.stmts[i].Mode = "Keep"
          /\ \E k \in OverlapIndices(conv.stmts[i]) : conv.Blocks[k] \in IgnoredBlocks

\* C9: the statements are processed in non-decreasing start position, the
\* cursor only moves forward, and every block the cursor has discarded ends
\* before the start of every statement processed afterwards.
CursorSound ==
    (Converted /\ ~FileMarked) =>
        /\ StatementsSorted
        /\ \A i \in StmtIndices : CursorBefore(i) <= conv.cursor[i]
        /\ \A i, j \in StmtIndices :
              i < j => \A k \in 1..conv.cursor[i] :
                          /\ BeforeStart(conv.Blocks[k], conv.stmts[j])
                          /\ ~Overlaps(conv.Blocks[k], conv.stmts[j])

(***************************************************************************)
(* Properties of the change classification.                                *)
(***************************************************************************)
Max2(a, b) == IF a >= b THEN a ELSE b
Min2(a, b) == IF a <= b THEN a ELSE b

\* The lines StartLine..EndLine of section sec and of statement s intersect.
SharesLine(sec, s) ==
    Max2(sec.StartLine, s.StartLine) <= Min2(sec.EndLine, s.EndLine)

\* C3: a statement is Changed iff some section of the file's change shares a
\* line with the statement's line range, and Original when none does or the
\* file has no change.
ChangeClassification ==
    Converted =>
        \A i \in StmtIndices :
            conv.stmts[i].State =
                IF /\ conv.change # <<>>
                   /\ \E k \in 1..Len(conv.change[1].Sections) :
                         SharesLine(conv.change[1].Sections[k], conv.stmts[i])
                THEN "Changed" ELSE "Original"

\* A file with a change of two sections: one statement is Changed through a
\* section that starts before it, another statement is Original.
ChangeClassificationWitness ==
    /\ Converted
    /\ conv.change # <<>>
    /\ Len(conv.change[1].Sections) = 2
    /\ \E i \in StmtIndices :
          /\ conv.stmts[i].State = "Changed"
          /\ \A k \in 1..Len(conv.change[1].Sections) :
                SharesLine(conv.change[1].Sections[k], conv.stmts[i]) =>
                    conv.change[1].Sections[k].StartLine < conv.stmts[i].StartLine
    /\ \E i \in StmtIndices : conv.stmts[i].State = "Original"

(***************************************************************************)
(* Properties of the statement extents.  The syntax tree is read here by   *)
(* the roles of its nodes, not by the visitors.                            *)
(***************************************************************************)
OptSet(o) == { o[i] : i \in 1..Len(o) }
Tagged(role, nodes) == { [role |-> role, node |-> n] : n \in nodes }

\* The statements directly under statement n, each with its role.
ChildStmts(n) ==
    CASE n.kind = "Block" -> Tagged("elem", OptSet(n.List))
      [] n.kind \in {"Case", "Comm"} -> Tagged("elem", OptSet(n.Body))
      [] n.kind = "For" ->
            Tagged("init", OptSet(n.Init)) \cup Tagged("post", OptSet(n.Post))
            \cup Tagged("body", {n.Body})
      [] n.kind = "If" ->
            Tagged("init", OptSet(n.Init)) \cup Tagged("body", {n.Body})
            \cup Tagged("else", OptSet(n.Else))
      [] n.kind = "Labeled" -> Tagged("labeled", {n.Stmt})
      [] n.kind \in {"Range", "Select"} -> Tagged("body", {n.Body})
      [] n.kind = "Switch" ->
            Tagged("init", OptSet(n.Init)) \cup Tagged("body", {n.Body})
      [] n.kind = "TypeSwitch" ->
            Tagged("init", OptSet(n.Init)) \cup Tagged("assign", {n.Assign})
            \cup Tagged("body", {n.Body})
      [] OTHER -> {}

\* The statements of a function body, function literals not entered.
RECURSIVE StmtsUnder(_)
StmtsUnder(tagged) ==
    {tagged} \cup UNION { StmtsUnder(c) : c \in ChildStmts(tagged.node) }

\* The function literals in the expressions of the statements under n.
RECURSIVE FuncsUnder(_)
FuncsUnder(f) ==
    {f} \cup UNION { FuncsUnder(l) :
                       l \in UNION { OptSet(x.node.lits) :
                                       x \in { y \in UNION { StmtsUnder(z) :
                                                               z \in Tagged("body", OptSet(f.Body)) } :
                                                 y.node.kind = "Simple" } } }

ControlKinds == {"For", "Range", "If", "Switch", "TypeSwitch", "Select"}

\* The functions with a body of the file conv was made from.
FileFuncs ==
    { f \in UNION { FuncsUnder(d) : d \in OptSet(ParseFile(conv.file)[1]) } :
        f.Body # <<>> }

ExtentsOf(fe) == { fe.stmts[i] : i \in 1..Len(fe.stmts) }

FuncExtentOf(f) ==
    CHOOSE fe \in { conv.extents[i] : i \in 1..Len(conv.extents) } :
        fe.extent = Extent(f)

BodyStmts(f) == StmtsUnder([role |-> "body", node |-> f.Body[1]])

\* C10 as stated: no control construct of a function body gets a statement
\* extent for its own whole span.
MinimalStatementUnits ==
    Converted =>
        \A f \in FileFuncs :
            \A x \in BodyStmts(f) :
                x.node.kind \in ControlKinds =>
                    Extent(x.node) \notin ExtentsOf(FuncExtentOf(f))

\* The statements StmtVisitor gives an extent: the elements of block, case
\* and comm-clause bodies and an else-if statement, unless they are blocks or
\* clauses themselves.
Listed(x) ==
    /\ x.role = "elem" \/ (x.role = "else" /\ x.node.kind = "If")
    /\ x.node.kind \notin {"Block", "Case", "Comm"}

\* C10 amended: the statement extents of a function are exactly the whole
\* spans of the statements that are elements of a block, case-clause or
\* comm-clause body of the function (nested bodies included) or an else-if
\* statement, control constructs among them; blocks, clauses and the
\* Init/Post/Assign sub-statements of control constructs get none.
ListedStatementUnits ==
    Converted =>
        /\ Len(conv.extents) = Cardinality(FileFuncs)
        /\ \A f \in FileFuncs :
              /\ ExtentsOf(FuncExtentOf(f)) =
                    { Extent(x.node) : x \in { y \in BodyStmts(f) : Listed(y) } }
              /\ Len(FuncExtentOf(f).stmts) = Cardinality(ExtentsOf(FuncExtentOf(f)))

\* A function with a for statement that has an Init: the for statement's
\* span is an extent, the Init's is not.
ListedStatementUnitsWitness ==
    /\ Converted
    /\ \E f \in FileFuncs :
          \E x, y \in BodyStmts(f) :
              /\ x.node.kind = "For" /\ x.role = "elem"
              /\ y.role = "init" /\ y.node \in OptSet(x.node.Init)
              /\ Extent(x.node) \in ExtentsOf(FuncExtentOf(f))
              /\ Extent(y.node) \notin ExtentsOf(FuncExtentOf(f))

(***************************************************************************)
(* Properties of Parse.                                                    *)
(***************************************************************************)
Failed == fault # "none"

\* C4: once a step of Parse has failed the call has returned, with a nil
\* Packages and a non-nil error, and nothing more is processed; a call returns
\* a non-nil Packages only with a nil error, after every profile file was
\* decoded and every decoded entry converted.
NoPartialSuccess ==
    /\ Failed => /\ pc = "done"
                 /\ ret.packages = <<>>
                 /\ ret.err # <<>>
                 /\ fi <= Len(coverProfileFiles)
                 /\ converted < decoded \/ fault = "ProfileFormatError"
    /\ pc = "done" =>
          /\ ret.packages # <<>> <=> ret.err = <<>>
          /\ ret.err = <<>> <=> ~Failed
          /\ ~Failed => /\ fi = Len(coverProfileFiles) + 1
                        /\ converted = decoded

\* A second profile file failed to decode after the first was converted.
NoPartialSuccessWitness ==
    /\ pc = "done"
    /\ Failed
    /\ fi = 2
    /\ converted = 1
    /\ DOMAIN packages # {}
    /\ ret.packages = <<>>

\* C5: the error Parse returns still carries the collaborator's error.
ErrorKindPreserved ==
    (pc = "done" /\ Failed) => \E i \in 1..Len(ret.err) : ret.err[i] = fault

\* C6: at the end of each profile-file iteration AddPackage has been called
\* exactly once for every package of parser.packages, and for nothing else.
AddedOncePerIteration ==
    (pc = "file" /\ fi > 1) =>
        /\ DOMAIN addLog = DOMAIN packages
        /\ \A n \in DOMAIN addLog : addLog[n] = 1
        /\ result = DOMAIN packages

\* The second iteration has ended with two packages, one of them constructed
\* in the first iteration.
AddedOncePerIterationWitness ==
    /\ pc = "file"
    /\ fi = 3
    /\ Cardinality(DOMAIN packages) = 2
    /\ Cardinality(DOMAIN built) = 2
    /\ \A n \in DOMAIN packages : addLog[n] = 1

\* The model a successful call returned: the packages its Packages points to.
Returned == [n \in ret.packages[1] |-> packages[n]]

\* C7: the Packages a call returns hold only the packages and Functions
\* constructed during that call.
FreshStatePerCall ==
    (pc = "done" /\ ~Failed) =>
        \A n \in DOMAIN Returned :
            /\ n \in DOMAIN built
            /\ Len(Returned[n].Functions) = built[n]

====
